---- MODULE Spec2Model ----
(***************************************************************************)
(* Model of dashboard.py: a Streamlit script that is re-executed top to    *)
(* bottom on every user interaction (a "render pass").  Shared between      *)
(* passes are only the memoized connection (st.cache_resource) and the     *)
(* memoized query results (st.cache_data, ttl=600).  The database is an     *)
(* external, mutable system of record.                                      *)
(***************************************************************************)
EXTENDS Integers, Sequences, FiniteSets, TLC

VARIABLES
    now,        \* wall clock, seconds
    db,         \* current contents of the database: table name -> table
    faults,     \* SQL texts whose execution currently fails
    conn,       \* st.cache_resource entry of init_connection: "none" | "open"
    cache,      \* st.cache_data store of run_query: key -> [t, df, msgs]
    lastPhys,   \* database side: key -> when it last executed that statement, and how
    pass        \* record of the latest render pass

vars == <<now, db, faults, conn, cache, lastPhys, pass>>

-----------------------------------------------------------------------------
(* Bounds of the exploration *)

MaxTime == 600                 \* no render pass starts after this instant
Durations == {299, 300}        \* seconds a pass (or an idle period) may take
MaxRows == 32                  \* rows of the generated shows tables

(* Program constants *)

TTL == 600                     \* @st.cache_data(ttl=600)
FallbackMinYear == 1900        \* else-branch of min_val
CurrentYear == 2026            \* pd.Timestamp.now().year

-----------------------------------------------------------------------------
(* Values: None / NULL / NaN is the empty tuple, a present value v is <<v>> *)

None == <<>>
Some(v) == <<v>>
notna(x) == x # None

DataFrame(columns, rows) == [cols |-> columns, rows |-> rows]
EmptyDataFrame == DataFrame(<<>>, <<>>)            \* pd.DataFrame()
empty(df) == Len(df.rows) = 0 \/ Len(df.cols) = 0  \* DataFrame.empty

Range(s) == {s[i] : i \in 1..Len(s)}

RECURSIVE SelectSeqBy(_, _)
\* rows of s, in order, whose index satisfies keep
SelectSeqBy(s, keep) ==
    IF s = <<>> THEN <<>>
    ELSE (IF keep[Head(s)] THEN <<Head(s)>> ELSE <<>>) \o SelectSeqBy(Tail(s), keep)

RECURSIVE Distinct(_)
\* distinct elements of s in order of first appearance
Distinct(s) ==
    IF s = <<>> THEN <<>>
    ELSE LET init == Distinct(SubSeq(s, 1, Len(s) - 1))
             x == s[Len(s)]
         IN IF x \in Range(init) THEN init ELSE Append(init, x)

Count(s, x) == Cardinality({i \in 1..Len(s) : s[i] = x})

SetMin(S) == CHOOSE x \in S : \A y \in S : x <= y
SetMax(S) == CHOOSE x \in S : \A y \in S : x >= y

-----------------------------------------------------------------------------
(* Text: a title, a name or a search term is a tuple of characters *)

LowerOf == [A |-> "a", B |-> "b", C |-> "c", D |-> "d", E |-> "e", F |-> "f",
            G |-> "g", H |-> "h", I |-> "i", J |-> "j", K |-> "k", L |-> "l",
            M |-> "m", N |-> "n", O |-> "o", P |-> "p", Q |-> "q", R |-> "r",
            S |-> "s", T |-> "t", U |-> "u", V |-> "v", W |-> "w", X |-> "x",
            Y |-> "y", Z |-> "z"]

LowerChar(c) == IF c \in DOMAIN LowerOf THEN LowerOf[c] ELSE c

\* str.lower()
lower(s) == [i \in 1..Len(s) |-> LowerChar(s[i])]

RECURSIVE ILike(_, _)
\* PostgreSQL: s ILIKE p, with % matching any run and _ any one character
ILike(s, p) ==
    IF p = <<>> THEN s = <<>>
    ELSE IF Head(p) = "%" THEN ILike(s, Tail(p)) \/ (s # <<>> /\ ILike(Tail(s), p))
    ELSE /\ s # <<>>
         /\ (Head(p) = "_" \/ LowerChar(Head(s)) = LowerChar(Head(p)))
         /\ ILike(Tail(s), Tail(p))

-----------------------------------------------------------------------------
(* The expected schema *)

ShowsCols == <<"show_id", "type", "title", "director_id", "release_year", "rating",
               "duration", "month_added", "year_added", "description">>

Show(id, type, title, director, release, rating, month, year) ==
    [show_id |-> id, type |-> type, title |-> title, director_id |-> director,
     release_year |-> release, rating |-> rating, duration |-> None,
     month_added |-> month, year_added |-> year, description |-> None]

Director(id, name) == [director_id |-> id, director_name |-> name]
DirectorsCols == <<"director_id", "director_name">>

\* a bridge row or a dimension row of cast / countries / genres
Pair(k1, v1, k2, v2) == [x \in {k1, k2} |-> IF x = k1 THEN v1 ELSE v2]

\* project the rows of a table onto some of its columns: SELECT c1, c2 FROM t
Project(t, columns) ==
    DataFrame(columns, [i \in 1..Len(t.rows) |-> [c \in Range(columns) |-> t.rows[i][c]]])

-----------------------------------------------------------------------------
(* The SQL texts of the script *)

min_year_query == "SELECT MIN(year_added) FROM shows WHERE year_added IS NOT NULL;"
max_year_query == "SELECT MAX(year_added) FROM shows WHERE year_added IS NOT NULL;"
query_year_added == "SELECT type, COUNT(*) as count FROM shows WHERE year_added = %s GROUP BY type;"
query_search == "SELECT show_id, type, title, release_year, rating, description FROM shows WHERE title ILIKE %s;"
query_shows == "SELECT show_id, type, title, director_id, release_year, rating, duration, month_added FROM shows;"
query_directors == "SELECT director_id, director_name FROM directors;"
query_show_cast == "SELECT show_id, cast_member_id FROM show_cast_members;"
query_cast_members == "SELECT cast_member_id, cast_member_name FROM cast_members;"
query_show_countries == "SELECT show_id, country_id FROM show_countries;"
query_countries == "SELECT country_id, country_name FROM countries;"
query_show_genres == "SELECT show_id, genre_id FROM show_genres;"
query_genres == "SELECT genre_id, genre_name FROM genres;"

\* display label -> physical table of the table browser
table_names ==
    [x \in {"Directores", "Miembros del Elenco", "Países", "Géneros", "Shows (Títulos)",
            "Relación Show-Elenco", "Relación Show-Países", "Relación Show-Géneros"} |->
        CASE x = "Directores" -> "directors"
          [] x = "Miembros del Elenco" -> "cast_members"
          [] x = "Países" -> "countries"
          [] x = "Géneros" -> "genres"
          [] x = "Shows (Títulos)" -> "shows"
          [] x = "Relación Show-Elenco" -> "show_cast_members"
          [] x = "Relación Show-Países" -> "show_countries"
          [] x = "Relación Show-Géneros" -> "show_genres"]

DbTables == {table_names[x] : x \in DOMAIN table_names}

\* f"SELECT * FROM {db_table_name};"
TableQuery(db_table_name) == "SELECT * FROM " \o db_table_name \o ";"

\* the column lists of the eight loading queries of the Analytics view
AnalyticsSelect ==
    << [query |-> query_shows, table |-> "shows",
        cols |-> <<"show_id", "type", "title", "director_id", "release_year", "rating",
                   "duration", "month_added">>],
       [query |-> query_directors, table |-> "directors", cols |-> DirectorsCols],
       [query |-> query_show_cast, table |-> "show_cast_members",
        cols |-> <<"show_id", "cast_member_id">>],
       [query |-> query_cast_members, table |-> "cast_members",
        cols |-> <<"cast_member_id", "cast_member_name">>],
       [query |-> query_show_countries, table |-> "show_countries",
        cols |-> <<"show_id", "country_id">>],
       [query |-> query_countries, table |-> "countries",
        cols |-> <<"country_id", "country_name">>],
       [query |-> query_show_genres, table |-> "show_genres",
        cols |-> <<"show_id", "genre_id">>],
       [query |-> query_genres, table |-> "genres", cols |-> <<"genre_id", "genre_name">>] >>

AnalyticsQueries == {AnalyticsSelect[i].query : i \in 1..Len(AnalyticsSelect)}

-----------------------------------------------------------------------------
(* What the database answers to a statement that executes successfully *)

YearsAdded(d) ==
    {d["shows"].rows[i].year_added[1] :
        i \in {j \in 1..Len(d["shows"].rows) : notna(d["shows"].rows[j].year_added)}}

\* SELECT type, COUNT(*) ... WHERE year_added = y GROUP BY type
GroupByType(d, y) ==
    LET rows == d["shows"].rows
        hit == SelectSeqBy([i \in 1..Len(rows) |-> i],
                           [i \in 1..Len(rows) |-> rows[i].year_added = Some(y)])
        types == Distinct([i \in 1..Len(hit) |-> rows[hit[i]].type])
        every == [i \in 1..Len(hit) |-> rows[hit[i]].type]
    IN DataFrame(<<"type", "count">>,
                 [i \in 1..Len(types) |-> [type |-> types[i], count |-> Count(every, types[i])]])

\* SELECT ... FROM shows WHERE title ILIKE pattern
SearchTitles(d, pattern) ==
    LET t == d["shows"]
        keep == [i \in 1..Len(t.rows) |->
                    notna(t.rows[i].title) /\ ILike(t.rows[i].title[1], pattern)]
        idx == SelectSeqBy([i \in 1..Len(t.rows) |-> i], keep)
    IN Project(DataFrame(t.cols, [i \in 1..Len(idx) |-> t.rows[idx[i]]]),
               <<"show_id", "type", "title", "release_year", "rating", "description">>)

\* pd.read_sql_query(query, _conn, params=params) when the statement succeeds
read_sql_query(query, params, d) ==
    IF query = min_year_query
    THEN DataFrame(<<"min">>,
            << [min |-> IF YearsAdded(d) = {} THEN None ELSE Some(SetMin(YearsAdded(d)))] >>)
    ELSE IF query = max_year_query
    THEN DataFrame(<<"max">>,
            << [max |-> IF YearsAdded(d) = {} THEN None ELSE Some(SetMax(YearsAdded(d)))] >>)
    ELSE IF query = query_year_added THEN GroupByType(d, params[1])
    ELSE IF query = query_search THEN SearchTitles(d, params[1])
    ELSE IF query \in AnalyticsQueries
    THEN LET s == AnalyticsSelect[CHOOSE i \in 1..Len(AnalyticsSelect) :
                                      AnalyticsSelect[i].query = query]
         IN Project(d[s.table], s.cols)
    ELSE d[CHOOSE t \in DbTables : TableQuery(t) = query]

-----------------------------------------------------------------------------
(* UI elements and diagnostics *)

El(kind, label, data) == [kind |-> kind, label |-> label, data |-> data]

Kinds(ui) == {ui[i].kind : i \in 1..Len(ui)}

-----------------------------------------------------------------------------
(* init_connection, memoized by st.cache_resource *)

ConnectOutcomes == {"connected", "OperationalError", "Exception"}

\* init_connection without its st.stop(): the script runs on without a connection
init_connection_NoStop(cn, outcome) ==
    IF cn = "open" \/ outcome = "connected"
    THEN [conn |-> "open", ok |-> TRUE, ui |-> <<>>, attempts |-> IF cn = "open" THEN 0 ELSE 1]
    ELSE [conn |-> "none", ok |-> TRUE, attempts |-> 1,
          ui |-> << El("error", "Error al conectar con PostgreSQL: ", outcome) >>]

init_connection(cn, outcome) ==
    IF cn = "open"
    THEN [conn |-> "open", ok |-> TRUE, ui |-> <<>>, attempts |-> 0]
    ELSE IF outcome = "connected"
    THEN [conn |-> "open", ok |-> TRUE, ui |-> <<>>, attempts |-> 1]
    ELSE IF outcome = "OperationalError"
    THEN [conn |-> "none", ok |-> FALSE, attempts |-> 1,
          ui |-> << El("error", "Error al conectar con PostgreSQL: ", outcome),
                    El("error", "Por favor, verifica los parámetros de conexión.", None) >>]
    ELSE [conn |-> "none", ok |-> FALSE, attempts |-> 1,
          ui |-> << El("error", "Un error inesperado ocurrió durante la conexión: ", outcome) >>]

-----------------------------------------------------------------------------
(* run_query, memoized by st.cache_data(ttl=600) on (query, params) *)

\* the body without its try / except: the error leaves run_query
run_query_body_Raises(query, params, d, F) ==
    IF query \in F
    THEN [df |-> EmptyDataFrame, raised |-> TRUE, failed |-> TRUE, msgs |-> <<>>]
    ELSE [df |-> read_sql_query(query, params, d), raised |-> FALSE, failed |-> FALSE,
          msgs |-> <<>>]

\* the function body: try / except Exception
run_query_body(query, params, d, F) ==
    IF query \in F
    THEN [df |-> EmptyDataFrame, raised |-> FALSE, failed |-> TRUE,
          msgs |-> << El("error", "Error al ejecutar la consulta: ", query),
                      El("error", "Detalles del error: ", None) >>]
    ELSE [df |-> read_sql_query(query, params, d), raised |-> FALSE, failed |-> FALSE,
          msgs |-> <<>>]

\* the hashed arguments; _conn is excluded by its leading underscore
CacheKey(query, params) == [query |-> query, params |-> params]

\* a store without ttl
Fresh_NeverExpires(c, key, t) == key \in DOMAIN c

\* a stored entry is served while less than ttl seconds old
Fresh(c, key, t) == key \in DOMAIN c /\ t < c[key].t + TTL

\* a store that keeps only the tables of statements that succeeded
Cacheable_SkipFailures(b) == ~b.raised /\ ~b.failed

\* whatever the body returns is stored; an error that leaves it is not
Cacheable(b) == ~b.raised

Store(c, key, entry) == [k \in DOMAIN c \cup {key} |-> IF k = key THEN entry ELSE c[k]]

run_query(c, t, query, params, d, F) ==
    LET key == CacheKey(query, params) IN
    IF Fresh(c, key, t)
    THEN [cache |-> c, df |-> c[key].df, msgs |-> c[key].msgs, raised |-> FALSE,
          physical |-> FALSE, failed |-> FALSE, query |-> query, params |-> params, t |-> t]
    ELSE LET b == run_query_body(query, params, d, F) IN
         [cache |-> IF Cacheable(b)
                    THEN Store(c, key, [t |-> t, df |-> b.df, msgs |-> b.msgs])
                    ELSE c,
          df |-> b.df, msgs |-> b.msgs, raised |-> b.raised,
          physical |-> TRUE, failed |-> b.failed, query |-> query, params |-> params, t |-> t]

\* what a pass remembers of one call
CallOf(r) == [query |-> r.query, params |-> r.params, t |-> r.t, physical |-> r.physical,
              failed |-> r.failed, raised |-> r.raised, df |-> r.df]

\* result of a view: the store it leaves, its calls, what it rendered, how it ended
Done(c, calls, ui) == [cache |-> c, calls |-> calls, ui |-> ui, status |-> "completed"]
Raised(c, calls, ui) == [cache |-> c, calls |-> calls, ui |-> ui, status |-> "exception"]

-----------------------------------------------------------------------------
(* View "Inicio" *)

iloc00(df) == df.rows[1][df.cols[1]]

\* 'Movie' -> "Películas", 'TV Show' -> "Series de TV", anything else verbatim
TipoLabel(type) ==
    IF type = Some("Movie") THEN Some("Películas")
    ELSE IF type = Some("TV Show") THEN Some("Series de TV")
    ELSE type

\* st.number_input raises when value lies outside [min_value, max_value]
NumberInputAccepts(min_value, max_value, value) == min_value <= value /\ value <= max_value

HomeIntro ==
    << El("header", "Bienvenido al Explorador de Datos de Netflix", None),
       El("info", "Asegúrate de que tu base de datos PostgreSQL esté en ejecución y accesible.", None),
       El("subheader", "Consulta Rápida: Shows Añadidos por Año", None) >>

\* lines 140-159, below the year query: the summary or the "none found" message
HomeYearResult(r3, calls, ui, year_input) ==
    IF r3.raised THEN Raised(r3.cache, Append(calls, CallOf(r3)), ui \o r3.msgs) ELSE
    IF ~empty(r3.df)
    THEN Done(r3.cache, Append(calls, CallOf(r3)),
              ui \o r3.msgs \o
              << El("success", year_input,
                    [i \in 1..Len(r3.df.rows) |->
                        [count |-> r3.df.rows[i].count,
                         tipo |-> TipoLabel(r3.df.rows[i].type)]]) >>)
    ELSE Done(r3.cache, Append(calls, CallOf(r3)),
              ui \o r3.msgs \o
              << El("info", "No se encontraron títulos añadidos en el año", year_input) >>)

\* lines 131-159: the selector and, on confirmation, the query of the chosen year.
\* button: the confirmation button was pressed; pick: which end of the range the
\* user left the selector on.
HomeSelector(c, calls, ui, lo, hi, t, d, F, button, pick) ==
    LET selector == El("number_input", "Ingresa un año para ver cuántos títulos fueron añadidos:",
                       [min_value |-> lo, max_value |-> hi, value |-> hi])
        year_input == IF pick = "min" THEN lo ELSE hi
    IN
    IF ~NumberInputAccepts(lo, hi, hi) THEN Raised(c, calls, Append(ui, selector)) ELSE
    IF ~button THEN Done(c, calls, Append(ui, selector)) ELSE
    IF year_input = 0
    THEN Done(c, calls,
              ui \o <<selector, El("warning", "Por favor, ingresa un año válido.", None)>>)
    ELSE HomeYearResult(run_query(c, t, query_year_added, <<year_input>>, d, F),
                        calls, Append(ui, selector), year_input)

min_val(df_min_year) ==
    IF ~empty(df_min_year) /\ notna(iloc00(df_min_year))
    THEN iloc00(df_min_year)[1] ELSE FallbackMinYear

max_val(df_max_year) ==
    IF ~empty(df_max_year) /\ notna(iloc00(df_max_year))
    THEN iloc00(df_max_year)[1] ELSE CurrentYear

\* lines 125-138, below the MAX query
HomeBounds(r1, r2, t, d, F, button, pick) ==
    IF r2.raised
    THEN Raised(r2.cache, <<CallOf(r1), CallOf(r2)>>, HomeIntro \o r1.msgs \o r2.msgs)
    ELSE HomeSelector(r2.cache, <<CallOf(r1), CallOf(r2)>>, HomeIntro \o r1.msgs \o r2.msgs,
                      min_val(r1.df), max_val(r2.df), t, d, F, button, pick)

\* lines 124-125, below the MIN query.  The MIN query ran at t, the later ones
\* run at t + dur.
HomeMax(r1, t, dur, d, F, button, pick) ==
    IF r1.raised THEN Raised(r1.cache, <<CallOf(r1)>>, HomeIntro \o r1.msgs)
    ELSE HomeBounds(r1, run_query(r1.cache, t + dur, max_year_query, None, d, F),
                    t + dur, d, F, button, pick)

HomeView(c, t, dur, d, F, button, pick) ==
    HomeMax(run_query(c, t, min_year_query, None, d, F), t, dur, d, F, button, pick)

-----------------------------------------------------------------------------
(* View "Ver Tablas Completas" *)

TablesView(c, t, d, F, selected_table_display_name) ==
    LET db_table_name == table_names[selected_table_display_name]
        head == << El("header", "Visualización de Tablas Completas", None),
                   El("subheader", "Contenido de la tabla: ", db_table_name) >>
        r == run_query(c, t, TableQuery(db_table_name), None, d, F)
        df_table == r.df
    IN
    IF r.raised THEN Raised(r.cache, <<CallOf(r)>>, head \o r.msgs) ELSE
    IF ~empty(df_table)
    THEN Done(r.cache, <<CallOf(r)>>,
              head \o r.msgs \o << El("dataframe", db_table_name, df_table),
                                   El("write", "Total de filas: ", Len(df_table.rows)) >>)
    ELSE Done(r.cache, <<CallOf(r)>>,
              head \o r.msgs \o << El("warning", "No se encontraron datos o la tabla está vacía.",
                                      db_table_name) >>)

-----------------------------------------------------------------------------
(* View "Buscar Shows por Título" *)

\* a view that searches whatever the box holds
Truthy_Always(search_term) == TRUE

\* if search_term:
Truthy(search_term) == search_term # <<>>

\* f"%{search_term}%"
Wildcarded(search_term) == <<"%">> \o search_term \o <<"%">>

SearchView(c, t, d, F, search_term) ==
    LET head == << El("header", "Buscar Shows por Título", None),
                   El("text_input", "Ingresa parte del título a buscar:", search_term) >>
    IN
    IF ~Truthy(search_term) THEN Done(c, <<>>, head) ELSE
    LET r == run_query(c, t, query_search, <<Wildcarded(search_term)>>, d, F)
        df_search_results == r.df
    IN
    IF r.raised
    THEN Done(r.cache, <<CallOf(r)>>,
              head \o r.msgs \o << El("error", "Error durante la búsqueda: ", None) >>) ELSE
    IF ~empty(df_search_results)
    THEN Done(r.cache, <<CallOf(r)>>,
              head \o r.msgs \o << El("subheader", "Resultados para ", search_term),
                                   El("dataframe", "df_search_results", df_search_results) >>)
    ELSE Done(r.cache, <<CallOf(r)>>,
              head \o r.msgs \o << El("info", "No se encontraron shows que coincidan con ",
                                      search_term) >>)

-----------------------------------------------------------------------------
(* pandas helpers used by the Analytics view *)

TopK == 10           \* .nlargest(10)
TailYears == 30      \* .tail(30)

RECURSIVE InsertByKey(_, _)
\* insert x behind every element whose key is not larger: a stable insertion
InsertByKey(s, x) ==
    IF s = <<>> THEN <<x>>
    ELSE IF Head(s).k <= x.k THEN <<Head(s)>> \o InsertByKey(Tail(s), x)
    ELSE <<x>> \o s

RECURSIVE SortByKey(_)
\* stable ascending sort of records on their integer field k
SortByKey(s) ==
    IF s = <<>> THEN <<>>
    ELSE InsertByKey(SortByKey(SubSeq(s, 1, Len(s) - 1)), s[Len(s)])

\* df.dropna(subset=[col])
dropna(df, col) ==
    DataFrame(df.cols,
              LET idx == SelectSeqBy([i \in 1..Len(df.rows) |-> i],
                                     [i \in 1..Len(df.rows) |-> notna(df.rows[i][col])])
              IN [i \in 1..Len(idx) |-> df.rows[idx[i]]])

\* the column as a sequence of (nullable) values
Column(df, col) == [i \in 1..Len(df.rows) |-> df.rows[i][col]]

\* Series.value_counts(): nulls dropped, one (value, count) per distinct value,
\* largest count first, equal counts in order of first appearance
value_counts(values) ==
    LET present == SelectSeqBy(values, [v \in Range(values) |-> notna(v)])
        firsts == Distinct(present)
        keyed == [i \in 1..Len(firsts) |->
                    [k |-> 0 - Count(present, firsts[i]),
                     value |-> firsts[i][1], count |-> Count(present, firsts[i])]]
        sorted == SortByKey(keyed)
    IN [i \in 1..Len(sorted) |-> [value |-> sorted[i].value, count |-> sorted[i].count]]

\* .sort_index() of a value_counts() over integers
sort_index(counts) ==
    LET sorted == SortByKey([i \in 1..Len(counts) |->
                    [k |-> counts[i].value, value |-> counts[i].value, count |-> counts[i].count]])
    IN [i \in 1..Len(sorted) |-> [value |-> sorted[i].value, count |-> sorted[i].count]]

\* .nlargest(n) of a value_counts()
nlargest(counts, n) == SubSeq(counts, 1, IF Len(counts) < n THEN Len(counts) ELSE n)

\* .head(n) in the place of .tail(n)
tail_Head(s, n) == SubSeq(s, 1, IF Len(s) < n THEN Len(s) ELSE n)

\* .tail(n)
tail(s, n) == SubSeq(s, IF Len(s) > n THEN Len(s) - n + 1 ELSE 1, Len(s))

RECURSIVE merge(_, _, _)
\* pd.merge(left, right, on=on, how='inner') on row sequences, left order kept
merge(left, right, on) ==
    IF left = <<>> THEN <<>>
    ELSE LET l == Head(left)
             idx == SelectSeqBy([i \in 1..Len(right) |-> i],
                                [i \in 1..Len(right) |-> right[i][on] = l[on]])
         IN [i \in 1..Len(idx) |->
                [c \in DOMAIN l \cup DOMAIN right[idx[i]] |->
                    IF c \in DOMAIN l THEN l[c] ELSE right[idx[i]][c]]]
            \o merge(Tail(left), right, on)

-----------------------------------------------------------------------------
(* The aggregations of the Analytics view *)

Chart(title, data) == El("plotly_chart", title, data)
Placeholder(text) == El("warning", text, None)

\* 1. Conteo de Tipos
TypeSection(df_shows) ==
    << El("subheader", "Distribución por Tipo (Película / Serie de TV)", None),
       Chart("Películas vs. Series de TV", value_counts(Column(df_shows, "type"))) >>

\* 2. Shows por Año de Lanzamiento
latest_years_count(df_shows_release) ==
    tail(sort_index(value_counts(Column(df_shows_release, "release_year"))), TailYears)

ReleaseSection(df_shows) ==
    LET df_shows_release == dropna(df_shows, "release_year") IN
    << El("subheader", "Número de Shows por Año de Lanzamiento", None),
       IF ~empty(df_shows_release)
       THEN Chart("Shows por Año de Lanzamiento (Últimos años)",
                  latest_years_count(df_shows_release))
       ELSE Placeholder("No hay datos de 'release_year' para mostrar el gráfico.") >>

\* 3. Top Ratings
RatingSection(df_shows) ==
    << El("subheader", "Distribución de Ratings", None),
       IF "rating" \in Range(df_shows.cols)
       THEN LET df_ratings == dropna(df_shows, "rating") IN
            IF ~empty(df_ratings)
            THEN Chart("Top 10 Ratings más comunes",
                       nlargest(value_counts(Column(df_ratings, "rating")), TopK))
            ELSE Placeholder("No hay datos de 'rating' para mostrar el gráfico.")
       ELSE Placeholder("La columna 'rating' no se encontró en la tabla 'shows'.") >>

\* 4. Shows por mes en que fueron añadidos
month_map == <<"Ene", "Feb", "Mar", "Abr", "May", "Jun",
               "Jul", "Ago", "Sep", "Oct", "Nov", "Dic">>

\* .astype(int).map(month_map): a number that is no key of the map becomes NaN
month_added_name(m) == IF m[1] \in 1..Len(month_map) THEN Some(month_map[m[1]]) ELSE None

\* the counts without the left merge against the twelve months
month_added_counts_NoFill(df_shows_month) ==
    LET names == [i \in 1..Len(df_shows_month.rows) |->
                     month_added_name(df_shows_month.rows[i].month_added)]
        counts == value_counts(names)
        ordered == SortByKey([i \in 1..Len(counts) |->
                     [k |-> (CHOOSE j \in 1..Len(month_map) : month_map[j] = counts[i].value) - 1,
                      row |-> [month_added_name |-> counts[i].value, count |-> counts[i].count]]])
    IN [i \in 1..Len(ordered) |-> ordered[i].row]

month_added_counts(df_shows_month) ==
    LET names == [i \in 1..Len(df_shows_month.rows) |->
                     month_added_name(df_shows_month.rows[i].month_added)]
        counts == value_counts(names)
        \* left merge of the twelve names with the counts, then fillna(0)
        merged == [i \in 1..Len(month_map) |->
                     [month_added_name |-> month_map[i],
                      count |-> IF \E j \in 1..Len(counts) : counts[j].value = month_map[i]
                                THEN counts[CHOOSE j \in 1..Len(counts) :
                                                counts[j].value = month_map[i]].count
                                ELSE 0]]
        \* month_order and sort_values('month_order')
        ordered == SortByKey([i \in 1..Len(merged) |->
                     [k |-> (CHOOSE j \in 1..Len(month_map) :
                                 month_map[j] = merged[i].month_added_name) - 1,
                      row |-> merged[i]]])
    IN [i \in 1..Len(ordered) |-> ordered[i].row]

MonthSection(df_shows) ==
    << El("subheader", "Shows añadidos por Mes", None),
       IF "month_added" \in Range(df_shows.cols)
       THEN LET df_shows_month == dropna(df_shows, "month_added") IN
            IF ~empty(df_shows_month)
            THEN Chart("Número de Shows añadidos por Mes", month_added_counts(df_shows_month))
            ELSE Placeholder("No hay datos de 'month_added' para mostrar el gráfico.")
       ELSE Placeholder("La columna 'month_added' no se encontró en la tabla 'shows'.") >>

\* 5. Top 10 Directores
unknown == <<"u", "n", "k", "n", "o", "w", "n">>

\* the comparison without .str.lower()
NotUnknown_CaseSensitive(director_name) == director_name = None \/ director_name[1] # unknown

\* director_name.str.lower() != 'unknown'; a missing name compares unequal
NotUnknown(director_name) == director_name = None \/ lower(director_name[1]) # unknown

df_filtered_directors(df_shows, df_directors) ==
    LET df_shows_with_directors == merge(df_shows.rows, df_directors.rows, "director_id")
    IN SelectSeqBy(df_shows_with_directors,
                   [r \in Range(df_shows_with_directors) |-> NotUnknown(r.director_name)])

director_counts(filtered) ==
    nlargest(value_counts([i \in 1..Len(filtered) |-> filtered[i].director_name]), TopK)

DirectorSection(df_shows, df_directors) ==
    << El("subheader", "Top 10 Directores con Más Shows", None),
       IF ~empty(df_directors) /\ ~empty(df_shows)
       THEN LET filtered == df_filtered_directors(df_shows, df_directors) IN
            IF filtered # <<>>
            THEN Chart("Top 10 Directores (excluyendo 'Unknown')", director_counts(filtered))
            ELSE Placeholder("No hay datos de directores (después de filtrar 'Unknown') para mostrar.")
       ELSE Placeholder("No se pudieron cargar datos de directores o shows.") >>

\* 6, 7, 8. Top 10 of a bridge table joined to its dimension table
BridgeSection(subheader, title, missing, df_bridge, df_dim, on, name) ==
    << El("subheader", subheader, None),
       IF ~empty(df_bridge) /\ ~empty(df_dim)
       THEN LET full == merge(df_bridge.rows, df_dim.rows, on) IN
            Chart(title, nlargest(value_counts([i \in 1..Len(full) |-> full[i][name]]), TopK))
       ELSE Placeholder(missing) >>

-----------------------------------------------------------------------------
(* View "Análisis de Shows" *)

RECURSIVE LoadAnalytics(_, _, _, _, _)
\* the first n of the eight loading calls, in source order
LoadAnalytics(c, t, d, F, n) ==
    IF n = 0 THEN [cache |-> c, calls |-> <<>>, dfs |-> <<>>, msgs |-> <<>>, raised |-> FALSE]
    ELSE LET p == LoadAnalytics(c, t, d, F, n - 1) IN
         IF p.raised THEN p
         ELSE LET r == run_query(p.cache, t, AnalyticsSelect[n].query, None, d, F) IN
              [cache |-> r.cache, calls |-> Append(p.calls, CallOf(r)),
               dfs |-> Append(p.dfs, r.df), msgs |-> p.msgs \o r.msgs, raised |-> r.raised]

\* everything below the loading calls, as a function of the eight tables
AnalyticsRender(df_shows, df_directors, df_show_cast, df_cast_members, df_show_countries, df_countries, df_show_genres, df_genres) ==
    IF ~empty(df_shows)
    THEN TypeSection(df_shows) \o ReleaseSection(df_shows) \o RatingSection(df_shows)
         \o MonthSection(df_shows) \o DirectorSection(df_shows, df_directors)
         \o BridgeSection("Top 10 Miembros del Elenco con Más Apariciones",
                          "Top 10 Miembros del Elenco",
                          "No se pudieron cargar datos del elenco.",
                          df_show_cast, df_cast_members, "cast_member_id", "cast_member_name")
         \o BridgeSection("Top 10 Países Productores de Contenido",
                          "Top 10 Países Productores",
                          "No se pudieron cargar datos de países.",
                          df_show_countries, df_countries, "country_id", "country_name")
         \o BridgeSection("Top 10 Géneros Más Comunes",
                          "Top 10 Géneros",
                          "No se pudieron cargar datos de géneros.",
                          df_show_genres, df_genres, "genre_id", "genre_name")
    ELSE << Placeholder("No se pudieron cargar datos de la tabla 'shows' para el análisis.") >>

AnalyticsView(c, t, d, F) ==
    LET head == << El("header", "Análisis Detallado de Shows", None) >>
        l == LoadAnalytics(c, t, d, F, Len(AnalyticsSelect))
    IN
    IF l.raised THEN Raised(l.cache, l.calls, head \o l.msgs)
    ELSE Done(l.cache, l.calls,
              head \o l.msgs \o AnalyticsRender(l.dfs[1], l.dfs[2], l.dfs[3], l.dfs[4],
                                                l.dfs[5], l.dfs[6], l.dfs[7], l.dfs[8]))

-----------------------------------------------------------------------------
(* Database contents explored *)

Table(columns, rows) == DataFrame(columns, rows)

Database(shows, directors, show_cast, cast_members, show_countries, countries, show_genres, genres) ==
    [t \in DbTables |->
        CASE t = "shows" -> Table(ShowsCols, shows)
          [] t = "directors" -> Table(DirectorsCols, directors)
          [] t = "show_cast_members" -> Table(<<"show_id", "cast_member_id">>, show_cast)
          [] t = "cast_members" -> Table(<<"cast_member_id", "cast_member_name">>, cast_members)
          [] t = "show_countries" -> Table(<<"show_id", "country_id">>, show_countries)
          [] t = "countries" -> Table(<<"country_id", "country_name">>, countries)
          [] t = "show_genres" -> Table(<<"show_id", "genre_id">>, show_genres)
          [] t = "genres" -> Table(<<"genre_id", "genre_name">>, genres)]

Nolan == <<"N", "o", "l", "a", "n">>
Unknown == <<"U", "n", "k", "n", "o", "w", "n">>

EmptyDb == Database(<<>>, <<>>, <<>>, <<>>, <<>>, <<>>, <<>>, <<>>)

Catalog2020 ==
    Database(
        << Show(1, Some("Movie"), Some(<<"A">>), Some(1), Some(2020), Some("PG"), Some(1), Some(2019)),
           Show(2, Some("TV Show"), Some(<<"a", "B">>), Some(2), Some(2019), None, None, Some(2020)),
           Show(3, Some("Movie"), Some(<<"C">>), None, None, Some("R"), Some(12), Some(2020)) >>,
        << Director(Some(1), Some(Nolan)), Director(Some(2), Some(Unknown)) >>,
        << Pair("show_id", Some(1), "cast_member_id", Some(1)),
           Pair("show_id", Some(2), "cast_member_id", Some(1)) >>,
        << Pair("cast_member_id", Some(1), "cast_member_name", Some("Ann")) >>,
        << Pair("show_id", Some(1), "country_id", Some(1)) >>,
        << Pair("country_id", Some(1), "country_name", Some("Peru")) >>,
        << Pair("show_id", Some(3), "genre_id", Some(1)) >>,
        << Pair("genre_id", Some(1), "genre_name", Some("Drama")) >>)

\* the catalog after a reload that kept only titles added in 2021
Catalog2021 ==
    Database(
        << Show(4, Some("Movie"), Some(<<"B">>), Some(1), Some(2021), Some("PG"), Some(2), Some(2021)),
           Show(5, None, None, None, None, None, None, None) >>,
        << Director(Some(1), Some(Nolan)) >>,
        <<>>, <<>>, <<>>, <<>>, <<>>, <<>>)

Databases == {EmptyDb, Catalog2020, Catalog2021}

AllQueries ==
    {min_year_query, max_year_query, query_year_added, query_search}
    \cup AnalyticsQueries \cup {TableQuery(t) : t \in DbTables}

FaultScenarios == {{}, AllQueries, {min_year_query}, {max_year_query}}

(* User inputs explored *)

Options == {"Inicio", "Ver Tablas Completas", "Análisis de Shows", "Buscar Shows por Título"}
TablePick == {"Directores", "Shows (Títulos)"}
SearchTerms == {<<>>, <<"a">>, <<"%">>}

-----------------------------------------------------------------------------
(* The state machine *)

NoPass == [n |-> 0, selected |-> "none", dispatched |-> "none", status |-> "none",
           connects |-> 0, calls |-> <<>>, ui |-> <<>>]

Title == << El("title", "Explorador de Datos de Netflix", None) >>
Footer == << El("sidebar.info", "Aplicación creada con Streamlit y PostgreSQL.", None) >>

Init ==
    /\ now = 0
    /\ db \in Databases
    /\ faults \in FaultScenarios
    /\ conn = "none"
    /\ cache = <<>>
    /\ lastPhys = <<>>
    /\ pass = NoPass

\* the database notes the time of every statement it really executed
Executed(lp, calls) ==
    LET done == {i \in 1..Len(calls) : calls[i].physical}
        keys == {CacheKey(calls[i].query, calls[i].params) : i \in done}
    IN [k \in DOMAIN lp \cup keys |->
            IF k \in keys
            THEN LET c == calls[CHOOSE i \in done :
                                   CacheKey(calls[i].query, calls[i].params) = k]
                 IN [t |-> c.t, failed |-> c.failed]
            ELSE lp[k]]

\* One execution of the script, top to bottom: title, init_connection, the
\* selected view, footer.  view is the result of the selected view's code.
Script(option, outcome, dur, view) ==
    LET ic == init_connection(conn, outcome) IN
    /\ now <= MaxTime
    /\ now' = now + dur
    /\ conn' = ic.conn
    /\ UNCHANGED <<db, faults>>
    /\ IF ic.ok
       THEN /\ cache' = view.cache
            /\ lastPhys' = Executed(lastPhys, view.calls)
            /\ pass' = [n |-> pass.n + 1, selected |-> option, dispatched |-> option,
                        status |-> view.status, connects |-> ic.attempts,
                        calls |-> view.calls,
                        ui |-> Title \o view.ui
                               \o (IF view.status = "completed" THEN Footer ELSE <<>>)]
       ELSE \* st.stop(): nothing below line 82 runs
            /\ UNCHANGED <<cache, lastPhys>>
            /\ pass' = [n |-> pass.n + 1, selected |-> option, dispatched |-> "none",
                        status |-> "stopped", connects |-> ic.attempts,
                        calls |-> <<>>, ui |-> Title \o ic.ui]

HomePass ==
    \E outcome \in ConnectOutcomes, dur \in Durations, button \in BOOLEAN, pick \in {"min", "max"} :
        Script("Inicio", outcome, dur, HomeView(cache, now, dur, db, faults, button, pick))

TablesPass ==
    \E outcome \in ConnectOutcomes, dur \in Durations, name \in TablePick :
        Script("Ver Tablas Completas", outcome, dur, TablesView(cache, now, db, faults, name))

AnalyticsPass ==
    \E outcome \in ConnectOutcomes, dur \in Durations :
        Script("Análisis de Shows", outcome, dur, AnalyticsView(cache, now, db, faults))

SearchPass ==
    \E outcome \in ConnectOutcomes, dur \in Durations, search_term \in SearchTerms :
        Script("Buscar Shows por Título", outcome, dur,
               SearchView(cache, now, db, faults, search_term))

\* time passes without any interaction
Tick ==
    /\ now <= MaxTime
    /\ \E dur \in Durations : now' = now + dur
    /\ UNCHANGED <<db, faults, conn, cache, lastPhys, pass>>

\* the database is reloaded, breaks or recovers
EnvChange ==
    /\ \E d \in Databases, F \in FaultScenarios :
          /\ <<d, F>> # <<db, faults>>
          /\ db' = d
          /\ faults' = F
    /\ UNCHANGED <<now, conn, cache, lastPhys, pass>>

\* Every view, against a database that does not change under the session
Next == Tick \/ HomePass \/ TablesPass \/ AnalyticsPass \/ SearchPass

Spec == Init /\ [][Next]_vars

\* The Home view against a database that is reloaded, breaks and recovers
NextHome == Tick \/ EnvChange \/ HomePass

SpecHome == Init /\ [][NextHome]_vars

-----------------------------------------------------------------------------
(* Inputs of the Analytics view: generated shows and directors tables *)

SeqsUpTo(V, n) == UNION {[1..k -> V] : k \in 0..n}

\* shows whose only populated columns are the three the aggregations group on
ShowsFrom(years, months, directors) ==
    [i \in 1..Len(years) |->
        Show(i, Some("Movie"), None, directors[i], years[i], None, months[i], None)]

Nulls(n) == [i \in 1..n |-> None]

YearShapes == {"asc", "desc", "dup", "nulls", "scatter"}

YearColumn(n, shape) ==
    [i \in 1..n |->
        CASE shape = "asc" -> Some(1990 + i)
          [] shape = "desc" -> Some(1990 + n - i)
          [] shape = "dup" -> Some(1990 + (i \div 2))
          [] shape = "nulls" -> IF i % 3 = 0 THEN None ELSE Some(1990 + 2 * i)
          [] shape = "scatter" -> Some(1990 + ((i * 7) % n))]

YearColumns ==
    {YearColumn(n, shape) : n \in 0..MaxRows, shape \in YearShapes}
    \cup SeqsUpTo({None, Some(2019), Some(2020)}, 3)

MonthColumns ==
    {[i \in 1..n |-> Some(1 + ((i * 5) % 12))] : n \in 0..MaxRows}
    \cup SeqsUpTo({None, Some(1), Some(12), Some(13)}, 3)

Letters == <<"a", "b", "c", "d", "e", "f", "g", "h", "i", "j", "k", "l">>

DirectorNames ==
    { <<Some(Nolan), Some(Unknown), Some(<<"U", "N", "K", "N", "O", "W", "N">>)>>,
      <<Some(unknown), Some(Nolan), Some(<<"N", "O", "L", "A", "N">>)>>,
      <<Some(Unknown), Some(unknown), Some(<<"u", "n", "K", "n", "o", "w", "N">>)>>,
      <<Some(Nolan), None, Some(<<"U", "n", "k", "n", "o", "w">>)>>,
      <<None, Some(<<"u", "n", "k", "n", "o", "w", "n", "s">>), Some(Unknown)>> }

DirectorTables ==
    {[j \in 1..3 |-> Director(Some(j), names[j])] : names \in DirectorNames}

\* twelve directors, the busiest of them called UNKNOWN
TwelveDirectors ==
    [j \in 1..12 |->
        Director(Some(j), Some(IF j = 1 THEN <<"U", "N", "K", "N", "O", "W", "N">>
                               ELSE <<"D", Letters[j]>>))]

WithShows(shows, directors) ==
    Database(shows, directors, <<>>, <<>>, <<>>, <<>>, <<>>, <<>>)

AggregationInputs ==
    {WithShows(ShowsFrom(ys, Nulls(Len(ys)), Nulls(Len(ys))), <<>>) : ys \in YearColumns}
    \cup {WithShows(ShowsFrom(Nulls(Len(ms)), ms, Nulls(Len(ms))), <<>>) : ms \in MonthColumns}
    \cup {WithShows(ShowsFrom(Nulls(Len(ds)), Nulls(Len(ds)), ds), t) :
            ds \in SeqsUpTo({None, Some(1), Some(2), Some(3)}, 3), t \in DirectorTables}
    \cup {WithShows(ShowsFrom(Nulls(n), Nulls(n), [i \in 1..n |-> Some(1 + ((i * i) % 12))]),
                    TwelveDirectors) : n \in 0..MaxRows}

\* the sample catalog after its shows table was truncated
TruncatedShows == [Catalog2020 EXCEPT !["shows"] = Table(ShowsCols, <<>>)]

InitAnalytics ==
    /\ now = 0
    /\ conn = "none"
    /\ cache = <<>>
    /\ lastPhys = <<>>
    /\ pass = NoPass
    /\ \/ db \in Databases \cup {TruncatedShows} /\ faults \in SUBSET AnalyticsQueries
       \/ db \in AggregationInputs /\ faults = {}

\* The Analytics view over every combination of failing loads and over the
\* generated tables
NextAnalytics == Tick \/ AnalyticsPass

SpecAnalytics == InitAnalytics /\ [][NextAnalytics]_vars

-----------------------------------------------------------------------------
(* Properties *)

KeyOf(c) == [query |-> c.query, params |-> c.params]

Analytics == "Análisis de Shows"
Search == "Buscar Shows por Título"

\* the data of the chart with this title in the latest pass, if it was rendered
HasChart(title) ==
    \E j \in 1..Len(pass.ui) : pass.ui[j].kind = "plotly_chart" /\ pass.ui[j].label = title
ChartData(title) ==
    pass.ui[CHOOSE j \in 1..Len(pass.ui) :
                pass.ui[j].kind = "plotly_chart" /\ pass.ui[j].label = title].data
HasPlaceholder(text) ==
    \E j \in 1..Len(pass.ui) : pass.ui[j].kind = "warning" /\ pass.ui[j].label = text

\* the tables the latest Analytics pass got from run_query, in loading order
Loaded(n) == pass.calls[n].df
AnalyticsDone == pass.dispatched = Analytics /\ pass.status = "completed"

\* C1: a call of run_query executes the statement if and only if the database
\* has not executed the same (query, params) in the 600 seconds before the call:
\* inside the window nothing is executed again, after it the statement is
\* executed anew.
C1_OneExecutionPerWindow ==
    [][pass'.n # pass.n =>
        \A i \in 1..Len(pass'.calls) :
            LET c == pass'.calls[i] IN
            c.physical <=> (KeyOf(c) \notin DOMAIN lastPhys \/ c.t - lastPhys[KeyOf(c)].t >= 600)]_vars

\* a Home pass at second 600 whose MIN statement, executed at second 0, is
\* executed again while its MAX statement, executed later, is served from the store
C1_Witness ==
    /\ pass.dispatched = "Inicio"
    /\ Len(pass.calls) >= 2
    /\ pass.calls[1].t = 600 /\ pass.calls[1].physical
    /\ ~pass.calls[2].physical
    /\ lastPhys[KeyOf(pass.calls[2])].t < pass.calls[2].t

\* C2: a statement that fails inside run_query yields the table without rows and
\* columns, raises nothing, leaves a diagnostic naming the statement, and the
\* pass renders on after it.
C2_FailureYieldsEmptyTable ==
    \A i \in 1..Len(pass.calls) :
        LET c == pass.calls[i] IN
        (c.physical /\ c.failed) =>
            /\ ~c.raised
            /\ c.df.rows = <<>> /\ c.df.cols = <<>>
            /\ \E j \in 1..Len(pass.ui) :
                  /\ pass.ui[j].kind = "error"
                  /\ pass.ui[j].data = c.query
                  /\ j < Len(pass.ui)

C2_Witness ==
    /\ pass.status = "completed"
    /\ \E i \in 1..Len(pass.calls) : pass.calls[i].physical /\ pass.calls[i].failed

\* C3: in a completed Analytics pass every one of the eight aggregations shows
\* either its chart or its own placeholder, and the three bridge aggregations
\* show their chart whenever their bridge and dimension tables are not empty.
C3_AggregationsIndependent ==
    AnalyticsDone =>
        /\ ~empty(Loaded(1)) => HasChart("Películas vs. Series de TV")
        /\ \A s \in { <<3, 4, "Top 10 Miembros del Elenco", "No se pudieron cargar datos del elenco.">>,
                      <<5, 6, "Top 10 Países Productores", "No se pudieron cargar datos de países.">>,
                      <<7, 8, "Top 10 Géneros", "No se pudieron cargar datos de géneros.">> } :
              IF ~empty(Loaded(s[1])) /\ ~empty(Loaded(s[2]))
              THEN HasChart(s[3])
              ELSE HasPlaceholder(s[4])

\* C4: a pass in which the connection cannot be opened stops there: one attempt,
\* an error, no statement executed, no view dispatched or rendered, nothing stored.
C4_FailedConnectionHalts ==
    [][(pass'.n # pass.n /\ conn' = "none") =>
        /\ pass'.status = "stopped"
        /\ pass'.connects = 1
        /\ pass'.calls = <<>>
        /\ pass'.dispatched = "none"
        /\ Kinds(pass'.ui) = {"title", "error"}
        /\ cache' = cache /\ lastPhys' = lastPhys]_vars

C4_Witness ==
    /\ pass.status = "stopped" /\ conn = "none" /\ pass.connects = 1
    /\ pass.selected = Analytics


\* what the latest Analytics pass grouped on
ShowRows == Loaded(1).rows
MonthsSeen == {i \in 1..Len(ShowRows) : ShowRows[i].month_added # <<>>}
YearsSeen == {ShowRows[i].release_year[1] :
                i \in {j \in 1..Len(ShowRows) : ShowRows[j].release_year # <<>>}}
MonthsOfYear == <<"Ene", "Feb", "Mar", "Abr", "May", "Jun",
                  "Jul", "Ago", "Sep", "Oct", "Nov", "Dic">>
MonthChart == "Número de Shows añadidos por Mes"
YearChart == "Shows por Año de Lanzamiento (Últimos años)"
DirectorChart == "Top 10 Directores (excluyendo 'Unknown')"

TwelveMonths ==
    /\ HasChart(MonthChart)
    /\ LET D == ChartData(MonthChart) IN
       /\ Len(D) = 12
       /\ \A m \in 1..12 :
             /\ D[m].month_added_name = MonthsOfYear[m]
             /\ D[m].count = Cardinality({i \in 1..Len(ShowRows) :
                                             ShowRows[i].month_added = <<m>>})

\* C5 as stated: every non-empty shows table, even one whose month_added is null
\* in every row, yields the twelve months Jan..Dec with their row counts.
C5_AlwaysTwelveMonths ==
    (AnalyticsDone /\ ~empty(Loaded(1))) => TwelveMonths

\* C5 amended: a shows table with at least one non-null month_added yields the
\* twelve months Jan..Dec in calendar order, each with the number of rows of that
\* month and 0 for a month no row has; when month_added is null in every row the
\* aggregation shows its placeholder instead.
C5_TwelveMonthsWhenAnyMonth ==
    (AnalyticsDone /\ ~empty(Loaded(1))) =>
        IF MonthsSeen # {} THEN TwelveMonths
        ELSE /\ ~HasChart(MonthChart)
             /\ HasPlaceholder("No hay datos de 'month_added' para mostrar el gráfico.")

\* a month chart in which January has rows, December has none
C5_Witness ==
    /\ AnalyticsDone /\ HasChart(MonthChart)
    /\ ChartData(MonthChart)[1].count > 0
    /\ ChartData(MonthChart)[12].count = 0

AnyCaseUnknown == << {"u", "U"}, {"n", "N"}, {"k", "K"}, {"n", "N"},
                     {"o", "O"}, {"w", "W"}, {"n", "N"} >>
IsUnknown(name) == Len(name) = 7 /\ \A i \in 1..7 : name[i] \in AnyCaseUnknown[i]

\* shows of the latest pass whose director carries this name
ShowsDirectedBy(name) ==
    {i \in 1..Len(ShowRows) :
        \E j \in 1..Len(Loaded(2).rows) :
            /\ Loaded(2).rows[j].director_id = ShowRows[i].director_id
            /\ Loaded(2).rows[j].director_name = <<name>>}

\* C6: no category of the top-directors chart is "unknown" in any letter case,
\* and each category counts exactly the shows of the director with that name.
C6_NoUnknownDirector ==
    (AnalyticsDone /\ HasChart(DirectorChart)) =>
        LET D == ChartData(DirectorChart) IN
        \A i \in 1..Len(D) :
            /\ ~IsUnknown(D[i].value)
            /\ D[i].count = Cardinality(ShowsDirectedBy(D[i].value))

\* a chart was drawn although shows of "Unknown" and of "UNKNOWN" were loaded
C6_Witness ==
    /\ AnalyticsDone /\ HasChart(DirectorChart)
    /\ Len(ChartData(DirectorChart)) > 0
    /\ ShowsDirectedBy(<<"U", "n", "k", "n", "o", "w", "n">>) # {}
    /\ ShowsDirectedBy(<<"U", "N", "K", "N", "O", "W", "N">>) # {}

\* C7: with at least one non-null release_year the chart has one bucket per
\* retained year with its row count, ascending by year, and retains the
\* min(30, number of distinct years) latest distinct years.
C7_LatestThirtyYears ==
    (AnalyticsDone /\ ~empty(Loaded(1)) /\ YearsSeen # {}) =>
        /\ HasChart(YearChart)
        /\ LET D == ChartData(YearChart)
               kept == {D[i].value : i \in 1..Len(D)}
           IN /\ Len(D) = (IF Cardinality(YearsSeen) < 30 THEN Cardinality(YearsSeen) ELSE 30)
              /\ kept \subseteq YearsSeen
              /\ \A i \in 1..Len(D) - 1 : D[i].value < D[i + 1].value
              /\ \A y \in YearsSeen \ kept : \A z \in kept : y < z
              /\ \A i \in 1..Len(D) :
                    D[i].count = Cardinality({j \in 1..Len(ShowRows) :
                                                 ShowRows[j].release_year = <<D[i].value>>})

\* more than thirty distinct years were loaded and the earliest were dropped
C7_Witness ==
    /\ AnalyticsDone /\ HasChart(YearChart)
    /\ Cardinality(YearsSeen) > 30
    /\ Len(ChartData(YearChart)) = 30

\* the text typed into the search box in the latest pass
SearchText ==
    pass.ui[CHOOSE j \in 1..Len(pass.ui) : pass.ui[j].kind = "text_input"].data

\* C8: a Search pass with empty text calls run_query not at all and shows neither
\* results nor a "no matches" message; with text it issues the one fixed statement
\* with the text, wrapped in wildcards, as its only parameter.
C8_EmptySearchIssuesNothing ==
    pass.dispatched = Search =>
        IF SearchText = <<>>
        THEN /\ pass.calls = <<>>
             /\ Kinds(pass.ui) \cap {"dataframe", "subheader", "info", "error"} = {}
        ELSE /\ Len(pass.calls) = 1
             /\ pass.calls[1].query = query_search
             /\ pass.calls[1].params = << <<"%">> \o SearchText \o <<"%">> >>

\* an empty search after an earlier search had filled the store
C8_Witness ==
    /\ pass.dispatched = Search /\ SearchText = <<>> /\ pass.status = "completed"
    /\ \E k \in DOMAIN cache : k.query = query_search

\* C9: while the database's last execution of a (query, params) failed less than
\* 600 seconds ago, a call of run_query with it executes nothing and returns the
\* empty table.
C9_FailureIsMemoized ==
    [][pass'.n # pass.n =>
        \A i \in 1..Len(pass'.calls) :
            LET c == pass'.calls[i] IN
            (/\ KeyOf(c) \in DOMAIN lastPhys
             /\ lastPhys[KeyOf(c)].failed
             /\ c.t - lastPhys[KeyOf(c)].t < 600)
            => (~c.physical /\ ~c.raised /\ c.df = [cols |-> <<>>, rows |-> <<>>])]_vars

\* a call that returned the memoized empty table although the statement would
\* now succeed
C9_Witness ==
    \E i \in 1..Len(pass.calls) :
        LET c == pass.calls[i] IN
        /\ ~c.physical
        /\ c.df = [cols |-> <<>>, rows |-> <<>>]
        /\ lastPhys[KeyOf(c)].failed
        /\ c.query \notin faults

\* C10: the bounds handed to the year selector satisfy min_val <= max_val and
\* the default value lies between them.
C10_SelectorBoundsOrdered ==
    \A j \in 1..Len(pass.ui) :
        pass.ui[j].kind = "number_input" =>
            /\ pass.ui[j].data.min_value <= pass.ui[j].data.max_value
            /\ pass.ui[j].data.min_value <= pass.ui[j].data.value
            /\ pass.ui[j].data.value <= pass.ui[j].data.max_value

====
